---------------------------- MODULE Spec2Model ----------------------------
(***************************************************************************)
(* Enumeration of set partitions of {1..n} through restricted-growth       *)
(* strings (src/rgs.py): Algorithm V (rgs_all), Algorithm X (rgs_exactly), *)
(* Algorithm Y (rgs_exactly_y) and Algorithm Z (rgs_range).                *)
(*                                                                         *)
(* One enumeration session is one Python generator object.  The state of   *)
(* the model is the state of that generator: its parameters, the position  *)
(* it is suspended at (pc), its working arrays a and b, and the list of    *)
(* encodings it has handed to its consumer so far (out).  One action is    *)
(* one resumption of the generator (one call of next() by the consumer).   *)
(*                                                                         *)
(* Arrays are functions over 0..len-1, so positions keep the indices of    *)
(* the source.                                                             *)
(*                                                                         *)
(* Further specifications in this module use further variables:            *)
(*   PairSpec  two sessions whose arrays are objects of one heap           *)
(*             (heap, sess);                                               *)
(*   RecSpec   calls of stirling_s2 and _build_call_tree of               *)
(*             src/recurrencia_viz.py on the process-wide memo cache       *)
(*             (cache, call, ncalls);                                      *)
(*   TreeSpec  calls of dibujar_arbol_recurrencia on the same variables;   *)
(*   StepSpec  one session, with every iteration of the retry loop of      *)
(*             _next_X as a step of its own;                               *)
(*   AliasSpec one session and a consumer that writes into the values it   *)
(*             was handed, all of them objects of the heap (heap, sess);   *)
(*   AppSpec   the partition view of src/app.py: the script runs that      *)
(*             handle its buttons (session_state, ui);                     *)
(*   TreeViewSpec  the recurrence-tree view of src/app.py on the same      *)
(*             variables.                                                  *)
(* Each specification leaves the variables of the others at their idle     *)
(* values.                                                                 *)
(***************************************************************************)
EXTENDS Integers, Sequences, FiniteSets, TLC

\* Largest set size n explored.
MaxN == 5

VARIABLES
    alg,      \* which public generator function this session is
    n,        \* parameter n
    k,        \* parameter k             (rgs_exactly, rgs_exactly_y)
    kmin,     \* parameter kmin          (rgs_range)
    kmax,     \* parameter kmax          (rgs_range)
    pc,       \* where the generator is suspended
    a,        \* working array a (the encoding)
    b,        \* working array b (the bounds)
    out,      \* the encodings yielded so far, in order
    blocks,   \* the same yields as block lists (yield_blocks=True)
    oob,      \* TRUE once some array access used an index outside 0..len-1
    called,   \* the internal routines this session has invoked
    heap,     \* PairSpec: the list objects, by address
    sess,     \* PairSpec: the generators, by session number
    cache,    \* RecSpec: _stirling_cache
    call,     \* RecSpec: the last call made and what it returned
    ncalls,   \* RecSpec: how many calls were made
    session_state,  \* AppSpec: st.session_state
    ui              \* AppSpec: what the last script run did and showed

sessionVars == <<alg, n, k, kmin, kmax, pc, a, b, out, blocks, oob, called>>
pairVars == <<heap, sess>>
recVars == <<cache, call, ncalls>>
appVars == <<session_state, ui>>

vars == <<sessionVars, pairVars, recVars, appVars>>

\* No session of the first specification exists.
SessionIdle ==
    /\ alg = "none" /\ n = 0 /\ k = 0 /\ kmin = 0 /\ kmax = 0
    /\ pc = "done" /\ a = << >> /\ b = << >> /\ out = << >>
    /\ blocks = << >> /\ oob = FALSE /\ called = {}

\* No heap and no sessions on it.
PairIdle == heap = << >> /\ sess = << >>

\* The module recurrencia_viz is not in use.
RecIdle == cache = << >> /\ call = << >> /\ ncalls = 0

\* The app does not run.
AppIdle == session_state = << >> /\ ui = << >>

-----------------------------------------------------------------------------
(* Python list primitives                                                  *)

Max(x, y) == IF x >= y THEN x ELSE y

\* [0] * len  (the empty list when len <= 0)
ZeroList(len) == [i \in 0..(len - 1) |-> 0]

\* list(range(1, len + 1)): labels numbered from 1 instead of 0
RangeList_from1(len) == [i \in 0..(len - 1) |-> i + 1]

\* list(range(len))
RangeList(len) == [i \in 0..(len - 1) |-> i]

\* An index that is not one of the positions 0..len-1.
Outside(i, len) == i \notin 0..(len - 1)

\* An index on which Python raises IndexError.
Raises(i, len) == i \notin (-len)..(len - 1)

\* arr[i] with Python's index rules: a negative index counts from the end.
\* len is the length of arr; an access that raises reads as 0.
Rd(arr, len, i) ==
    IF i \in 0..(len - 1) /\ i \in DOMAIN arr THEN arr[i]
    ELSE IF i \in (-len)..(-1) /\ (len + i) \in DOMAIN arr THEN arr[len + i]
    ELSE 0

\* arr[i] = v with Python's index rules; an access that raises writes
\* nothing.
Wr(arr, len, i, v) ==
    IF i \in 0..(len - 1) /\ i \in DOMAIN arr THEN [arr EXCEPT ![i] = v]
    ELSE IF i \in (-len)..(-1) /\ (len + i) \in DOMAIN arr
         THEN [arr EXCEPT ![len + i] = v]
    ELSE arr

\* The pair of working arrays with the record of the accesses made on them:
\* oob = some index was outside 0..len-1, err = some access raised IndexError.
Arrays(aa, bb) == [a |-> aa, b |-> bb, oob |-> FALSE, err |-> FALSE]

\* Record that positions `ia` of a (length la) and `ib` of b (length lb)
\* were accessed.
Touch(st, ia, la, ib, lb) ==
    [st EXCEPT !.oob = @ \/ (\E i \in ia : Outside(i, la))
                         \/ (\E i \in ib : Outside(i, lb)),
               !.err = @ \/ (\E i \in ia : Raises(i, la))
                         \/ (\E i \in ib : Raises(i, lb))]

-----------------------------------------------------------------------------
(* rgs_to_blocks: blocks are sequences of 1-based elements, and a          *)
(* partition is the sequence of its blocks.                                *)

\* The loop `for i, label in enumerate(a, start=1):
\*               groups.setdefault(label, []).append(i)`
\* numbering the elements from 0 instead of 1
RECURSIVE GroupLoop_from0(_, _, _)
GroupLoop_from0(arr, groups, p) ==
    IF p \notin DOMAIN arr THEN groups
    ELSE LET label == arr[p]
             cur   == IF label \in DOMAIN groups THEN groups[label] ELSE << >>
         IN  GroupLoop_from0(arr,
                 [x \in DOMAIN groups \cup {label} |->
                     IF x = label THEN Append(cur, p) ELSE groups[x]],
                 p + 1)

\* The loop `for i, label in enumerate(a, start=1):
\*               groups.setdefault(label, []).append(i)`
\* where p is the position in a and i = p + 1 the element.
RECURSIVE GroupLoop(_, _, _)
GroupLoop(arr, groups, p) ==
    IF p \notin DOMAIN arr THEN groups
    ELSE LET label == arr[p]
             cur   == IF label \in DOMAIN groups THEN groups[label] ELSE << >>
         IN  GroupLoop(arr,
                 [x \in DOMAIN groups \cup {label} |->
                     IF x = label THEN Append(cur, p + 1) ELSE groups[x]],
                 p + 1)

\* sorted(keys)
RECURSIVE Sorted(_)
Sorted(S) ==
    IF S = {} THEN << >>
    ELSE LET m == CHOOSE x \in S : \A y \in S : x <= y
         IN  <<m>> \o Sorted(S \ {m})

\* sorted(keys, reverse=True)
RECURSIVE SortedReverse(_)
SortedReverse(S) ==
    IF S = {} THEN << >>
    ELSE LET m == CHOOSE x \in S : \A y \in S : x >= y
         IN  <<m>> \o SortedReverse(S \ {m})

\* rgs_to_blocks returning the blocks by decreasing label
rgs_to_blocks_reversed(arr) ==
    LET groups == GroupLoop(arr, << >>, 0)
        keys   == SortedReverse(DOMAIN groups)
    IN  [j \in 1..Len(keys) |-> groups[keys[j]]]

\* rgs_to_blocks(a)
rgs_to_blocks(arr) ==
    LET groups == GroupLoop(arr, << >>, 0)
        keys   == Sorted(DOMAIN groups)
    IN  [j \in 1..Len(keys) |-> groups[keys[j]]]

-----------------------------------------------------------------------------
(* The suffix refill shared verbatim by _next_V, _next_X and _next_Y:      *)
(*     for i in range(c + 1, n): a[i] = 0; b[i] = max(a[i-1], b[i-1])      *)

RECURSIVE Refill(_, _, _)
Refill(st, len, i) ==
    IF i >= len THEN st
    ELSE LET a1 == Wr(st.a, len, i, 0)
             b1 == Wr(st.b, len, i,
                      Max(Rd(a1, len, i - 1), Rd(st.b, len, i - 1)))
             s1 == Touch([st EXCEPT !.a = a1, !.b = b1],
                         {i, i - 1}, len, {i, i - 1}, len)
         IN  Refill(s1, len, i + 1)

-----------------------------------------------------------------------------
(* Algorithm V                                                             *)

\* The backward search of _next_V clearing every position it passes, as a
\* carry does
RECURSIVE ScanV_clearing(_, _, _)
ScanV_clearing(st, len, c) ==
    IF c = 0 THEN [found |-> FALSE, c |-> c, st |-> st]
    ELSE LET s1 == Touch(st, {c}, len, {c}, len)
         IN  IF s1.err THEN [found |-> FALSE, c |-> c, st |-> s1]
             ELSE IF ~(Rd(st.a, len, c) = len - 1
                       \/ Rd(st.a, len, c) > Rd(st.b, len, c))
                  THEN [found |-> TRUE, c |-> c, st |-> s1]
                  ELSE ScanV_clearing([s1 EXCEPT !.a = Wr(st.a, len, c, 0)],
                                      len, c - 1)

\* The backward search of _next_V, entered with c = n - 1.
RECURSIVE ScanV(_, _, _)
ScanV(st, len, c) ==
    IF c = 0 THEN [found |-> FALSE, c |-> c, st |-> st]
    ELSE LET s1 == Touch(st, {c}, len, {c}, len)
         IN  IF s1.err THEN [found |-> FALSE, c |-> c, st |-> s1]
             ELSE IF ~(Rd(st.a, len, c) = len - 1
                       \/ Rd(st.a, len, c) > Rd(st.b, len, c))
                  THEN [found |-> TRUE, c |-> c, st |-> s1]
                  ELSE ScanV(s1, len, c - 1)

\* _next_V without the refill of the positions after c
next_V_norefill(aa, bb, len) ==
    LET s == ScanV(Arrays(aa, bb), len, len - 1)
    IN  IF ~s.found THEN [ret |-> FALSE, st |-> s.st]
        ELSE [ret |-> TRUE,
              st  |-> [s.st EXCEPT
                          !.a = Wr(s.st.a, len, s.c,
                                   Rd(s.st.a, len, s.c) + 1)]]

\* _next_V(a, b, n): the arrays after the call and the value returned.
next_V(aa, bb, len) ==
    LET s == ScanV(Arrays(aa, bb), len, len - 1)
    IN  IF ~s.found THEN [ret |-> FALSE, st |-> s.st]
        ELSE LET a1 == Wr(s.st.a, len, s.c, Rd(s.st.a, len, s.c) + 1)
             IN  [ret |-> TRUE,
                  st  |-> Refill([s.st EXCEPT !.a = a1], len, s.c + 1)]

-----------------------------------------------------------------------------
(* Algorithm X                                                             *)

\* The loop of _first_X storing in b[i] the label of position i itself
RECURSIVE FirstXLoop_ownlabel(_, _, _, _)
FirstXLoop_ownlabel(st, len, kk, i) ==
    IF i <= len - kk THEN st
    ELSE LET s1 == Touch([st EXCEPT !.a = Wr(st.a, len, i, kk - len + i),
                                    !.b = Wr(st.b, len, i, kk - len + i)],
                         {i}, len, {i}, len)
         IN  FirstXLoop_ownlabel(s1, len, kk, i - 1)

\* The loop of _first_X, i running from n - 1 down to n - k + 1.
RECURSIVE FirstXLoop(_, _, _, _)
FirstXLoop(st, len, kk, i) ==
    IF i <= len - kk THEN st
    ELSE LET s1 == Touch([st EXCEPT !.a = Wr(st.a, len, i, kk - len + i),
                                    !.b = Wr(st.b, len, i, kk - len + i - 1)],
                         {i}, len, {i}, len)
         IN  FirstXLoop(s1, len, kk, i - 1)

\* _first_X(a, b, n, k)
first_X(aa, bb, len, kk) == FirstXLoop(Arrays(aa, bb), len, kk, len - 1)

\* The inner search of _next_X: c is decremented first and compared with 0
\* afterwards, so position 0 is never examined.
RECURSIVE ScanX(_, _, _, _)
ScanX(st, len, kk, c) ==
    LET s1 == Touch(st, {c}, len, {c}, len)
    IN  IF s1.err THEN [found |-> FALSE, c |-> c, st |-> s1]
        ELSE IF Rd(st.a, len, c) = kk - 1
                \/ Rd(st.a, len, c) > Rd(st.b, len, c)
             THEN IF c - 1 = 0
                  THEN [found |-> FALSE, c |-> c - 1, st |-> s1]
                  ELSE ScanX(s1, len, kk, c - 1)
             ELSE [found |-> TRUE, c |-> c, st |-> s1]

\* One iteration of the outer `while True` of _next_X on a working copy of
\* the arrays: a retry starts again from the arrays the iteration was
\* given.
NextXIter_oncopy(st, len, kk) ==
    LET s == ScanX(st, len, kk, len - 1)
    IN  IF ~s.found THEN [ret |-> FALSE, again |-> FALSE, st |-> s.st]
        ELSE LET a1 == Wr(s.st.a, len, s.c, Rd(s.st.a, len, s.c) + 1)
                 s2 == Touch(Refill([s.st EXCEPT !.a = a1], len, s.c + 1),
                             {len - 1}, len, {len - 1}, len)
                 m  == Max(Rd(s2.a, len, len - 1), Rd(s2.b, len, len - 1))
             IN  IF m = kk - 1 \/ s2.err
                 THEN [ret |-> TRUE, again |-> FALSE, st |-> s2]
                 ELSE [ret |-> FALSE, again |-> TRUE, st |-> st]

\* One iteration of the outer `while True` of _next_X: search, increment,
\* refill; again says that the largest label is not k - 1 and the loop
\* goes round once more on the new arrays.
NextXIter(st, len, kk) ==
    LET s == ScanX(st, len, kk, len - 1)
    IN  IF ~s.found THEN [ret |-> FALSE, again |-> FALSE, st |-> s.st]
        ELSE LET a1 == Wr(s.st.a, len, s.c, Rd(s.st.a, len, s.c) + 1)
                 s2 == Touch(Refill([s.st EXCEPT !.a = a1], len, s.c + 1),
                             {len - 1}, len, {len - 1}, len)
                 m  == Max(Rd(s2.a, len, len - 1), Rd(s2.b, len, len - 1))
             IN  IF m = kk - 1 \/ s2.err
                 THEN [ret |-> TRUE, again |-> FALSE, st |-> s2]
                 ELSE [ret |-> FALSE, again |-> TRUE, st |-> s2]

\* The outer `while True` of _next_X: iterations until one returns.
RECURSIVE NextXLoop(_, _, _)
NextXLoop(st, len, kk) ==
    LET r == NextXIter(st, len, kk)
    IN  IF r.again THEN NextXLoop(r.st, len, kk)
        ELSE [ret |-> r.ret, st |-> r.st]

\* _next_X returning after its first increment, without the test m == k - 1
next_X_noretry(aa, bb, len, kk) ==
    LET s == ScanX(Arrays(aa, bb), len, kk, len - 1)
    IN  IF ~s.found THEN [ret |-> FALSE, st |-> s.st]
        ELSE LET a1 == Wr(s.st.a, len, s.c, Rd(s.st.a, len, s.c) + 1)
             IN  [ret |-> TRUE,
                  st  |-> Refill([s.st EXCEPT !.a = a1], len, s.c + 1)]

\* _next_X(a, b, n, k)
next_X(aa, bb, len, kk) == NextXLoop(Arrays(aa, bb), len, kk)

-----------------------------------------------------------------------------
(* Algorithm Y                                                             *)

\* The loop of _first_Y without the test `if i - 1 >= 0`
RECURSIVE FirstYLoop_unguarded(_, _, _, _)
FirstYLoop_unguarded(st, len, kk, i) ==
    IF i >= len THEN st
    ELSE LET a1 == Wr(st.a, len, i, i - len + kk)
             bv == Max(Rd(a1, len, i - 1), Rd(st.b, len, i - 1))
             s1 == Touch([st EXCEPT !.a = a1, !.b = Wr(st.b, len, i, bv)],
                         {i, i - 1}, len, {i, i - 1}, len)
         IN  FirstYLoop_unguarded(s1, len, kk, i + 1)

\* The loop of _first_Y, i running from n - k up to n - 1.
RECURSIVE FirstYLoop(_, _, _, _)
FirstYLoop(st, len, kk, i) ==
    IF i >= len THEN st
    ELSE LET a1 == Wr(st.a, len, i, i - len + kk)
             bv == IF i - 1 >= 0
                   THEN Max(Rd(a1, len, i - 1), Rd(st.b, len, i - 1))
                   ELSE 0
             rd == IF i - 1 >= 0 THEN {i, i - 1} ELSE {i}
             s1 == Touch([st EXCEPT !.a = a1, !.b = Wr(st.b, len, i, bv)],
                         rd, len, rd, len)
         IN  FirstYLoop(s1, len, kk, i + 1)

\* _first_Y(a, b, n, k)
first_Y(aa, bb, len, kk) == FirstYLoop(Arrays(aa, bb), len, kk, len - kk)

\* The backward search of _next_Y, entered with c = n - 1.
RECURSIVE ScanY(_, _, _, _)
ScanY(st, len, kk, c) ==
    IF c = 0 THEN [found |-> FALSE, c |-> c, st |-> st]
    ELSE LET s1 == Touch(st, {c}, len, {c}, len)
         IN  IF s1.err THEN [found |-> FALSE, c |-> c, st |-> s1]
             ELSE IF ~(Rd(st.a, len, c) = kk - 1
                       \/ Rd(st.a, len, c) > Rd(st.b, len, c))
                  THEN [found |-> TRUE, c |-> c, st |-> s1]
                  ELSE ScanY(s1, len, kk, c - 1)

\* _next_Y without its repair pass
RepairY_skipped(st, len, i, k0) == st

\* The repair pass of _next_Y:
\*     while k0 > b[i]: a[i] = k0; b[i] = k0 - 1; i -= 1; k0 -= 1
RECURSIVE RepairY(_, _, _, _)
RepairY(st, len, i, k0) ==
    LET s1 == Touch(st, {}, len, {i}, len)
    IN  IF s1.err THEN s1
        ELSE IF k0 > Rd(st.b, len, i)
             THEN RepairY(Touch([s1 EXCEPT !.a = Wr(st.a, len, i, k0),
                                           !.b = Wr(st.b, len, i, k0 - 1)],
                                {i}, len, {i}, len),
                          len, i - 1, k0 - 1)
             ELSE s1

\* _next_Y(a, b, n, k)
next_Y(aa, bb, len, kk) ==
    LET s == ScanY(Arrays(aa, bb), len, kk, len - 1)
    IN  IF ~s.found THEN [ret |-> FALSE, st |-> s.st]
        ELSE LET a1 == Wr(s.st.a, len, s.c, Rd(s.st.a, len, s.c) + 1)
                 s2 == Touch(Refill([s.st EXCEPT !.a = a1], len, s.c + 1),
                             {len - 1}, len, {len - 1}, len)
             IN  IF Max(Rd(s2.a, len, len - 1), Rd(s2.b, len, len - 1))
                        # kk - 1
                 THEN [ret |-> TRUE, st |-> RepairY(s2, len, len - 1, kk - 1)]
                 ELSE [ret |-> TRUE, st |-> s2]

-----------------------------------------------------------------------------
(* Algorithm Z: a has length n, b has length n + 1                         *)

\* The loop of _first_Z, i running from n - 1 down to n - kmin + 1.
RECURSIVE FirstZLoop(_, _, _, _)
FirstZLoop(st, len, klo, i) ==
    IF i <= len - klo THEN st
    ELSE LET s1 == Touch([st EXCEPT !.a = Wr(st.a, len, i, klo - len + i),
                                    !.b = Wr(st.b, len + 1, i,
                                             klo - len + i - 1)],
                         {i}, len, {i}, len + 1)
         IN  FirstZLoop(s1, len, klo, i - 1)

\* _first_Z(a, b, n, kmin)
first_Z(aa, bb, len, klo) == FirstZLoop(Arrays(aa, bb), len, klo, len - 1)

\* The backward search of _next_Z, entered with i = n - 1.
RECURSIVE ScanZ(_, _, _, _)
ScanZ(st, len, khi, i) ==
    IF i = 0 THEN [found |-> FALSE, c |-> i, st |-> st]
    ELSE LET s1 == Touch(st, {i}, len, {i}, len + 1)
         IN  IF s1.err THEN [found |-> FALSE, c |-> i, st |-> s1]
             ELSE IF ~(Rd(st.a, len, i) = khi - 1
                       \/ Rd(st.a, len, i) > Rd(st.b, len + 1, i))
                  THEN [found |-> TRUE, c |-> i, st |-> s1]
                  ELSE ScanZ(s1, len, khi, i - 1)

\* The second fill loop of _next_Z:
\*     while i < n: a[i] = b[i] + 1; b[i+1] = a[i]; i += 1
RECURSIVE MinFillZ(_, _, _)
MinFillZ(st, len, i) ==
    IF ~(i < len) THEN st
    ELSE LET v  == Rd(st.b, len + 1, i) + 1
             s1 == Touch([st EXCEPT !.a = Wr(st.a, len, i, v),
                                    !.b = Wr(st.b, len + 1, i + 1, v)],
                         {i}, len, {i, i + 1}, len + 1)
         IN  MinFillZ(s1, len, i + 1)

\* The first fill loop of _next_Z, followed by the second:
\*     while zeroes > 0 and i < n: a[i] = 0; b[i+1] = b[i]; i += 1; zeroes -= 1
RECURSIVE ZeroFillZ(_, _, _, _)
ZeroFillZ(st, len, i, zeroes) ==
    IF ~(zeroes > 0 /\ i < len) THEN MinFillZ(st, len, i)
    ELSE LET s1 == Touch([st EXCEPT !.a = Wr(st.a, len, i, 0),
                                    !.b = Wr(st.b, len + 1, i + 1,
                                             Rd(st.b, len + 1, i))],
                         {i}, len, {i, i + 1}, len + 1)
         IN  ZeroFillZ(s1, len, i + 1, zeroes - 1)

\* _next_Z(a, b, n, kmin, kmax)
next_Z(aa, bb, len, klo, khi) ==
    LET s == ScanZ(Arrays(aa, bb), len, khi, len - 1)
    IN  IF ~s.found THEN [ret |-> FALSE, st |-> s.st]
        ELSE LET i  == s.c
                 a1 == Wr(s.st.a, len, i, Rd(s.st.a, len, i) + 1)
                 bn == Max(Rd(a1, len, i), Rd(s.st.b, len + 1, i))
                 s1 == Touch([s.st EXCEPT !.a = a1,
                                          !.b = Wr(s.st.b, len + 1, i + 1, bn)],
                             {i}, len, {i, i + 1}, len + 1)
                 zeroes == bn + len - i - klo
             IN  [ret |-> TRUE, st |-> ZeroFillZ(s1, len, i + 1, zeroes)]

-----------------------------------------------------------------------------
(* The generator objects.  A generator is the record                      *)
(*   [pc, a, b, out, blocks, oob, called]                                  *)
(* pc = "start"  : created, body not yet entered                           *)
(*      "loop"   : suspended at a yield that is followed by the            *)
(*                 `while _next_...` loop                                  *)
(*      "tail"   : suspended at a yield that is followed by `return`       *)
(*      "done"   : returned (StopIteration)                                *)
(*      "raised" : ended by an exception                                   *)

NewGenerator ==
    [pc |-> "start", a |-> ZeroList(0), b |-> ZeroList(0), out |-> << >>,
     blocks |-> << >>, oob |-> FALSE, called |-> {}]

\* yield rgs_to_blocks(arr) if yield_blocks else list(arr), then stay
\* suspended at `to`; out records the value yielded without yield_blocks and
\* blocks the value yielded with it.
Yield(g, arr, to) ==
    [g EXCEPT !.out = Append(@, arr),
              !.blocks = Append(@, rgs_to_blocks(arr)),
              !.pc = to]

\* return
Return(g) == [g EXCEPT !.pc = "done"]

\* raise
Raise(g) == [g EXCEPT !.pc = "raised"]

\* Store the arrays a routine worked on and note that it was called.
Stored(g, st, name) ==
    [g EXCEPT !.a = st.a, !.b = st.b, !.oob = @ \/ st.oob,
              !.called = @ \cup {name}]

\* a = [0] * n; b = [0] * lenb; first(a, b, ...); yield list(a)
AfterFirst(g, st, name) ==
    LET g1 == Stored(g, st, name)
    IN  IF st.err THEN Raise(g1) ELSE Yield(g1, g1.a, "loop")

\* The loop written as `while True: ok = next(...); yield list(a);
\* if not ok: return`, which emits the last encoding a second time
AfterNext_yieldlast(g, r, name) ==
    LET g1 == Stored(g, r.st, name)
    IN  IF r.st.err THEN Raise(g1)
        ELSE IF r.ret THEN Yield(g1, g1.a, "loop")
        ELSE Return(Yield(g1, g1.a, "loop"))

\* while next(a, b, ...): yield list(a)
AfterNext(g, r, name) ==
    LET g1 == Stored(g, r.st, name)
    IN  IF r.st.err THEN Raise(g1)
        ELSE IF r.ret THEN Yield(g1, g1.a, "loop")
        ELSE Return(g1)

\* 0 <= k <= n, the test of rgs_exactly and of rgs_exactly_y
KInRange(nn, kk) == 0 <= kk /\ kk <= nn

\* The test of rgs_range written as `0 <= kmin and kmax <= n`
RangeInRange_unordered(nn, klo, khi) == 0 <= klo /\ khi <= nn

\* 0 <= kmin <= kmax <= n, the test of rgs_range
RangeInRange(nn, klo, khi) == 0 <= klo /\ klo <= khi /\ khi <= nn

\* One resumption of rgs_all(n).
Resume_rgs_all(nn, g) ==
    IF g.pc = "start"
    THEN IF nn < 0 THEN Raise(g)
         ELSE IF nn = 0 THEN Yield(g, ZeroList(0), "tail")
         ELSE Yield([g EXCEPT !.a = ZeroList(nn), !.b = ZeroList(nn)],
                    ZeroList(nn), "loop")
    ELSE IF g.pc = "tail" THEN Return(g)
    ELSE AfterNext(g, next_V(g.a, g.b, nn), "_next_V")

\* One resumption of rgs_exactly(n, k).
Resume_rgs_exactly(nn, kk, g) ==
    IF g.pc = "start"
    THEN IF ~KInRange(nn, kk) THEN Return(g)
         ELSE IF nn = 0
              THEN IF kk = 0 THEN Yield(g, ZeroList(0), "tail")
                   ELSE Return(g)
         ELSE IF kk = 0 THEN Return(g)
         ELSE IF kk = 1
              THEN Yield([g EXCEPT !.a = ZeroList(nn)], ZeroList(nn), "tail")
         ELSE IF kk = nn
              THEN Yield([g EXCEPT !.a = RangeList(nn)], RangeList(nn), "tail")
         ELSE AfterFirst(g, first_X(ZeroList(nn), ZeroList(nn), nn, kk),
                         "_first_X")
    ELSE IF g.pc = "tail" THEN Return(g)
    ELSE AfterNext(g, next_X(g.a, g.b, nn, kk), "_next_X")

\* One resumption of rgs_exactly_y(n, k).
Resume_rgs_exactly_y(nn, kk, g) ==
    IF g.pc = "start"
    THEN IF ~KInRange(nn, kk) THEN Return(g)
         ELSE IF nn = 0
              THEN IF kk = 0 THEN Yield(g, ZeroList(0), "tail")
                   ELSE Return(g)
         ELSE AfterFirst(g, first_Y(ZeroList(nn), ZeroList(nn), nn, kk),
                         "_first_Y")
    ELSE IF g.pc = "tail" THEN Return(g)
    ELSE AfterNext(g, next_Y(g.a, g.b, nn, kk), "_next_Y")

\* One resumption of rgs_range(n, kmin, kmax).
Resume_rgs_range(nn, klo, khi, g) ==
    IF g.pc = "start"
    THEN IF nn < 0 THEN Raise(g)
         ELSE IF ~RangeInRange(nn, klo, khi) THEN Return(g)
         ELSE IF nn = 0
              THEN IF klo = 0 /\ 0 <= khi
                   THEN Yield(g, ZeroList(0), "tail")
                   ELSE Return(g)
         ELSE AfterFirst(g, first_Z(ZeroList(nn), ZeroList(nn + 1), nn, klo),
                         "_first_Z")
    ELSE IF g.pc = "tail" THEN Return(g)
    ELSE AfterNext(g, next_Z(g.a, g.b, nn, klo, khi), "_next_Z")

-----------------------------------------------------------------------------
(* The session                                                             *)

Algs == {"rgs_all", "rgs_exactly", "rgs_exactly_y", "rgs_range"}

\* Values tried for n: one negative value and every size up to MaxN.
Sizes == (-1)..MaxN

\* Values tried for k, kmin and kmax: from one below to one above 0..MaxN.
Counts == (-1)..(MaxN + 1)

\* The generator of this session.
Gen == [pc |-> pc, a |-> a, b |-> b, out |-> out, blocks |-> blocks,
        oob |-> oob, called |-> called]

\* The generator of this session becomes g.
Becomes(g) ==
    /\ pc' = g.pc
    /\ a' = g.a
    /\ b' = g.b
    /\ out' = g.out
    /\ blocks' = g.blocks
    /\ oob' = g.oob
    /\ called' = g.called
    /\ UNCHANGED <<alg, n, k, kmin, kmax>>
    /\ UNCHANGED <<pairVars, recVars, appVars>>

Suspended == pc \in {"start", "loop", "tail"}

\* The call that creates the generator: nothing of its body has run yet.
Init ==
    /\ alg \in Algs
    /\ n \in Sizes
    /\ k \in IF alg \in {"rgs_exactly", "rgs_exactly_y"} THEN Counts ELSE {0}
    /\ kmin \in IF alg = "rgs_range" THEN Counts ELSE {0}
    /\ kmax \in IF alg = "rgs_range" THEN Counts ELSE {0}
    /\ pc = NewGenerator.pc
    /\ a = NewGenerator.a
    /\ b = NewGenerator.b
    /\ out = NewGenerator.out
    /\ blocks = NewGenerator.blocks
    /\ oob = NewGenerator.oob
    /\ called = NewGenerator.called
    /\ PairIdle
    /\ RecIdle
    /\ AppIdle

\* next() on a generator made by rgs_all
rgs_all ==
    /\ alg = "rgs_all"
    /\ Suspended
    /\ Becomes(Resume_rgs_all(n, Gen))

\* next() on a generator made by rgs_exactly
rgs_exactly ==
    /\ alg = "rgs_exactly"
    /\ Suspended
    /\ Becomes(Resume_rgs_exactly(n, k, Gen))

\* next() on a generator made by rgs_exactly_y
rgs_exactly_y ==
    /\ alg = "rgs_exactly_y"
    /\ Suspended
    /\ Becomes(Resume_rgs_exactly_y(n, k, Gen))

\* next() on a generator made by rgs_range
rgs_range ==
    /\ alg = "rgs_range"
    /\ Suspended
    /\ Becomes(Resume_rgs_range(n, kmin, kmax, Gen))

Next == rgs_all \/ rgs_exactly \/ rgs_exactly_y \/ rgs_range

Spec == Init /\ [][Next]_vars

-----------------------------------------------------------------------------
(* Reference notions used to state the properties                          *)

\* The set of values a session has emitted.
Emitted == {out[i] : i \in 1..Len(out)}

\* The labels used by an encoding.
Labels(s) == {s[i] : i \in DOMAIN s}

\* s is a restricted-growth encoding of length len: s[0] = 0 and every later
\* label is at most one more than the largest label before it.
IsRGS(s, len) ==
    /\ DOMAIN s = 0..(len - 1)
    /\ \A i \in 0..(len - 1) :
          /\ s[i] >= 0
          /\ \A v \in 0..(s[i] - 1) : \E j \in 0..(i - 1) : s[j] = v

\* Every restricted-growth encoding of length len.
AllRGS(len) == {s \in [0..(len - 1) -> 0..(len - 1)] : IsRGS(s, len)}

\* The restricted-growth encodings of length len with exactly cnt labels.
ExactRGS(len, cnt) == {s \in AllRGS(len) : Cardinality(Labels(s)) = cnt}

\* Stirling numbers of the second kind, by their recurrence.
RECURSIVE StirlingRef(_, _)
StirlingRef(nn, kk) ==
    IF kk < 0 \/ kk > nn THEN 0
    ELSE IF nn = 0 THEN 1
    ELSE IF kk = 0 THEN 0
    ELSE kk * StirlingRef(nn - 1, kk) + StirlingRef(nn - 1, kk - 1)

\* StirlingRef(nn, lo) + ... + StirlingRef(nn, hi)
RECURSIVE StirlingSum(_, _, _)
StirlingSum(nn, lo, hi) ==
    IF lo > hi THEN 0 ELSE StirlingRef(nn, lo) + StirlingSum(nn, lo + 1, hi)

\* Bell numbers.
Bell(nn) == StirlingSum(nn, 0, nn)

\* s comes strictly before t in lexicographic order.
LexLess(s, t) ==
    \E j \in DOMAIN s \cap DOMAIN t :
        /\ s[j] < t[j]
        /\ \A i \in 0..(j - 1) : s[i] = t[i]

\* list(rgs_exactly(n, k)): the generator driven until it ends.
RECURSIVE Drain_rgs_exactly(_, _, _)
Drain_rgs_exactly(nn, kk, g) ==
    IF g.pc \in {"done", "raised"} THEN g
    ELSE Drain_rgs_exactly(nn, kk, Resume_rgs_exactly(nn, kk, g))

\* The set of encodings one session of rgs_exactly(n, k) emits.
EmittedBy_rgs_exactly(nn, kk) ==
    LET g == Drain_rgs_exactly(nn, kk, NewGenerator)
    IN  {g.out[i] : i \in 1..Len(g.out)}

ValidK == 0 <= k /\ k <= n
ValidRange == 0 <= kmin /\ kmin <= kmax /\ kmax <= n

-----------------------------------------------------------------------------
(* Properties                                                              *)

\* C1: a session of rgs_all(n), n >= 0, emits only restricted-growth
\* encodings of length n, and once it has ended it has emitted every one of
\* them exactly once, Bell(n) in all (one empty encoding for n = 0).
C1_AllEnumeratesEveryRGS ==
    (alg = "rgs_all" /\ n >= 0) =>
        /\ \A i \in 1..Len(out) : IsRGS(out[i], n)
        /\ pc = "done" =>
              /\ Emitted = AllRGS(n)
              /\ Cardinality(Emitted) = Len(out)
              /\ Len(out) = Bell(n)
              /\ n = 0 => out = << << >> >>

C1_Witness ==
    /\ alg = "rgs_all" /\ n = 3 /\ pc = "done"
    /\ out = << [i \in 0..2 |-> 0],
                [i \in 0..2 |-> IF i = 2 THEN 1 ELSE 0],
                [i \in 0..2 |-> IF i = 1 THEN 1 ELSE 0],
                [i \in 0..2 |-> IF i = 0 THEN 0 ELSE 1],
                [i \in 0..2 |-> i] >>

\* C2: a session of rgs_exactly(n, k) with 0 <= k <= n emits only
\* restricted-growth encodings of length n with exactly k distinct labels,
\* and once it has ended it has emitted every one of them exactly once.
C2_ExactlyEnumeratesKBlocks ==
    (alg = "rgs_exactly" /\ n >= 0 /\ ValidK) =>
        /\ \A i \in 1..Len(out) :
              /\ IsRGS(out[i], n)
              /\ Labels(out[i]) = 0..(k - 1)
        /\ pc = "done" =>
              /\ Emitted = ExactRGS(n, k)
              /\ Cardinality(Emitted) = Len(out)

C2_Witness ==
    /\ alg = "rgs_exactly" /\ n = 4 /\ k = 2 /\ pc = "done"
    /\ Len(out) = 7
    /\ "_next_X" \in called

\* C3: in every session of every enumerator, each emitted encoding is
\* strictly greater in lexicographic order than the one emitted before it.
C3_StrictlyIncreasing ==
    \A i \in 1..(Len(out) - 1) : LexLess(out[i], out[i + 1])

C3_Witness ==
    /\ alg = "rgs_exactly_y" /\ n = 4 /\ k = 3 /\ pc = "done"
    /\ Len(out) = 6
    /\ LexLess(out[5], out[6])

\* C4: for 0 <= k <= n, the set of encodings emitted by rgs_exactly_y(n, k)
\* equals the set emitted by rgs_exactly(n, k), and both have S(n, k)
\* elements.
C4_YEmitsTheSetOfX ==
    (alg = "rgs_exactly_y" /\ n >= 0 /\ ValidK /\ pc = "done") =>
        /\ Emitted = EmittedBy_rgs_exactly(n, k)
        /\ Cardinality(Emitted) = StirlingRef(n, k)
        /\ Cardinality(EmittedBy_rgs_exactly(n, k)) = StirlingRef(n, k)

\* C5: for 0 <= kmin <= kmax <= n, the set of encodings emitted by
\* rgs_range(n, kmin, kmax) is the union of the sets emitted by
\* rgs_exactly(n, k) for k in kmin..kmax, nothing is emitted twice, and the
\* number emitted is S(n, kmin) + ... + S(n, kmax).
C5_RangeIsUnionOfExactly ==
    (alg = "rgs_range" /\ n >= 0 /\ ValidRange /\ pc = "done") =>
        /\ Emitted = UNION {EmittedBy_rgs_exactly(n, j) : j \in kmin..kmax}
        /\ Cardinality(Emitted) = Len(out)
        /\ Len(out) = StirlingSum(n, kmin, kmax)

\* C6: for 0 <= kmin <= kmax <= n, every encoding emitted by
\* rgs_range(n, kmin, kmax), the first included, has a number of distinct
\* labels in kmin..kmax.
C6_RangeBlockCountInRange ==
    (alg = "rgs_range" /\ n >= 0 /\ ValidRange) =>
        \A i \in 1..Len(out) :
            Cardinality(Labels(out[i])) \in kmin..kmax

\* C7: rgs_exactly settles the trivial cases without _first_X and _next_X
\* and emits: nothing when k < 0 or k > n; one empty encoding when n = 0 and
\* k = 0; nothing when k = 0 and n > 0; the single encoding of all zeros when
\* k = 1 and n >= 1; the single encoding 0,1,...,n-1 when k = n and n >= 1.
C7_ExactlyTrivialCases ==
    (alg = "rgs_exactly" /\ pc = "done") =>
        /\ (k < 0 \/ k > n) => (out = << >> /\ called = {})
        /\ (n = 0 /\ k = 0) => (out = << << >> >> /\ called = {})
        /\ (k = 0 /\ n > 0) => (out = << >> /\ called = {})
        /\ (k = 1 /\ n >= 1) =>
              (out = << [i \in 0..(n - 1) |-> 0] >> /\ called = {})
        /\ (k = n /\ n >= 1) =>
              (out = << [i \in 0..(n - 1) |-> i] >> /\ called = {})

C7_Witness ==
    /\ alg = "rgs_exactly" /\ n = 3 /\ k = 3 /\ pc = "done"
    /\ Len(out) = 1
    /\ out[1][2] = 2

\* C8: every public enumerator rejects n < 0 with an error, whatever the
\* other parameters are, instead of producing a sequence.
C8_NegativeNRejected ==
    (n < 0 /\ pc # "start") => pc = "raised"

\* C9: for n >= 0 a logically-empty request ends without an error and with
\* nothing emitted: rgs_exactly and rgs_exactly_y with k < 0 or k > n, and
\* rgs_range with kmin < 0, kmin > kmax or kmax > n.
C9_EmptyRequestYieldsNothing ==
    (/\ n >= 0
     /\ pc # "start"
     /\ \/ alg \in {"rgs_exactly", "rgs_exactly_y"} /\ (k < 0 \/ k > n)
        \/ alg = "rgs_range" /\ (kmin < 0 \/ kmin > kmax \/ kmax > n))
    => (pc = "done" /\ out = << >>)

C9_Witness ==
    /\ alg = "rgs_range" /\ n = 2 /\ kmin = 2 /\ kmax = 1
    /\ pc = "done" /\ out = << >>

\* C10: with parameters the enumerators accept (n >= 0, 0 <= k <= n,
\* 0 <= kmin <= kmax <= n) no first-state or successor routine accesses a
\* position outside 0..n-1 of a or b (0..n for the b of rgs_range), and no
\* session ends in an exception.
C10_NoAccessOutsideArrays ==
    (/\ n >= 0
     /\ alg \in {"rgs_exactly", "rgs_exactly_y"} => ValidK
     /\ alg = "rgs_range" => ValidRange)
    => (~oob /\ pc # "raised")

C10_Witness ==
    /\ alg = "rgs_exactly_y" /\ n = 4 /\ k = 4 /\ pc = "done"
    /\ called = {"_first_Y", "_next_Y"}
    /\ ~oob

-----------------------------------------------------------------------------
(* Decoding                                                                *)

\* The elements of a block.
BlockSet(bl) == {bl[t] : t \in 1..Len(bl)}

\* The encoding induced by a list of blocks: every element of the j-th
\* block (counting from 0) gets label j; -1 marks an element of 1..len that
\* is in no block.
Relabel(bs, len) ==
    [p \in 0..(len - 1) |->
        LET js == {j \in 1..Len(bs) : (p + 1) \in BlockSet(bs[j])}
        IN  IF js = {} THEN -1
            ELSE (CHOOSE j \in js : \A j2 \in js : j <= j2) - 1]

\* C11: every emitted encoding, decoded with rgs_to_blocks and relabelled
\* by block number, gives back the same encoding.
C11_RoundTrip ==
    /\ Len(blocks) = Len(out)
    /\ \A i \in 1..Len(out) : Relabel(blocks[i], n) = out[i]

C11_Witness ==
    /\ alg = "rgs_range" /\ n = 5 /\ kmin = 2 /\ kmax = 3 /\ pc = "done"
    /\ Len(out) = 40
    /\ Len(blocks[40]) = 3
    /\ Relabel(blocks[40], n) = out[40]

\* The blocks bs are the partition of 1..len described by the encoding s:
\* non-empty, pairwise disjoint, covering 1..len; each block is the
\* increasing list of the elements that share one label; blocks come in the
\* order in which their labels first occur in s; there is one block per label.
IsDecodingOf(bs, s, len) ==
    /\ \A j \in 1..Len(bs) : Len(bs[j]) > 0
    /\ \A j1, j2 \in 1..Len(bs) :
          j1 # j2 => BlockSet(bs[j1]) \cap BlockSet(bs[j2]) = {}
    /\ UNION {BlockSet(bs[j]) : j \in 1..Len(bs)} = 1..len
    /\ \A j \in 1..Len(bs) :
          /\ \E label \in Labels(s) :
                BlockSet(bs[j]) = {p + 1 : p \in {q \in DOMAIN s : s[q] = label}}
          /\ \A t \in 1..(Len(bs[j]) - 1) : bs[j][t] < bs[j][t + 1]
    /\ \A j1, j2 \in 1..Len(bs) :
          j1 < j2 =>
             (CHOOSE p \in DOMAIN s : /\ (p + 1) \in BlockSet(bs[j1])
                                     /\ \A q \in 0..(p - 1) : s[q] # s[p])
           < (CHOOSE p \in DOMAIN s : /\ (p + 1) \in BlockSet(bs[j2])
                                      /\ \A q \in 0..(p - 1) : s[q] # s[p])
    /\ Len(bs) = Cardinality(Labels(s))

\* C12: for every restricted-growth encoding (rgs_all emits each of them),
\* rgs_to_blocks returns the partition the encoding describes.
C12_BlocksArePartition ==
    /\ \A i \in 1..Len(out) :
          IsRGS(out[i], n) => IsDecodingOf(blocks[i], out[i], n)
    /\ (alg = "rgs_all" /\ n >= 0 /\ pc = "done") =>
          \A s \in AllRGS(n) : \E i \in 1..Len(out) :
              out[i] = s /\ IsDecodingOf(blocks[i], s, n)

C12_Witness ==
    /\ alg = "rgs_all" /\ n = 4 /\ pc = "done"
    /\ \E i \in 1..Len(out) :
          /\ out[i] = [p \in 0..3 |-> IF p = 2 THEN 1 ELSE 0]
          /\ blocks[i] = << <<1, 2, 4>>, <<3>> >>

-----------------------------------------------------------------------------
(* Two sessions on one heap.  A list is an object with an address; each    *)
(* generator keeps, in its frame, the addresses of its a and b, and the    *)
(* routines mutate the objects at those addresses in place.                *)

\* Largest n of the sessions that are run side by side.
PairMaxN == 3

SessionIds == {1, 2}

\* The two module-level buffers every session would share if a and b were
\* globals instead of locals of the generator.
NewAddr_global(h, name) == IF name = "a" THEN 1 ELSE 2

\* The address of the list object created by `[0] * n`: one that no
\* existing object has.
NewAddr(h, name) == Cardinality(DOMAIN h) + 1

\* The object at address `at` becomes arr (a new object when `at` is new).
Store(h, at, arr) ==
    [x \in DOMAIN h \cup {at} |-> IF x = at THEN arr ELSE h[x]]

\* The calls that create the sessions run side by side: those with
\* 1 <= k <= n and 1 <= kmin <= kmax <= n, for 1 <= n <= PairMaxN.
PairCalls ==
    {c \in [alg : Algs, n : 1..PairMaxN, k : 0..PairMaxN,
            kmin : 0..PairMaxN, kmax : 0..PairMaxN] :
        /\ c.alg \in {"rgs_exactly", "rgs_exactly_y"} =>
              (1 <= c.k /\ c.k <= c.n)
        /\ c.alg \notin {"rgs_exactly", "rgs_exactly_y"} => c.k = 0
        /\ c.alg = "rgs_range" =>
              (1 <= c.kmin /\ c.kmin <= c.kmax /\ c.kmax <= c.n)
        /\ c.alg # "rgs_range" => (c.kmin = 0 /\ c.kmax = 0)}

\* One resumption of the generator created by the call c.
Resume(c, g) ==
    IF c.alg = "rgs_all" THEN Resume_rgs_all(c.n, g)
    ELSE IF c.alg = "rgs_exactly" THEN Resume_rgs_exactly(c.n, c.k, g)
    ELSE IF c.alg = "rgs_exactly_y" THEN Resume_rgs_exactly_y(c.n, c.k, g)
    ELSE Resume_rgs_range(c.n, c.kmin, c.kmax, g)

\* A generator frame on the heap: the call, the addresses ra and rb of its
\* arrays (0 before they exist) and the generator fields that are values.
NewFrame(c) ==
    [c |-> c, ra |-> 0, rb |-> 0, pc |-> "start", out |-> << >>,
     blocks |-> << >>, oob |-> FALSE, called |-> {}]

\* The generator of frame f, its arrays read from the heap h.
Loaded(h, f) ==
    [pc |-> f.pc,
     a |-> IF f.ra \in DOMAIN h THEN h[f.ra] ELSE ZeroList(0),
     b |-> IF f.rb \in DOMAIN h THEN h[f.rb] ELSE ZeroList(0),
     out |-> f.out, blocks |-> f.blocks, oob |-> f.oob, called |-> f.called]

PairInit ==
    /\ sess \in [SessionIds -> {NewFrame(c) : c \in PairCalls}]
    /\ heap = << >>
    /\ SessionIdle
    /\ RecIdle
    /\ AppIdle

\* The heap and the frame after a resumption took the frame f to the
\* generator g.  The arrays that outlive the first yield are created by
\* the first resumption; later resumptions work on those objects.
Placed(h, f, g) ==
    LET mk == f.pc = "start" /\ g.pc = "loop"
        ra == IF mk THEN NewAddr(h, "a") ELSE f.ra
        h1 == IF ra = 0 THEN h ELSE Store(h, ra, g.a)
        rb == IF mk THEN NewAddr(h1, "b") ELSE f.rb
        h2 == IF rb = 0 THEN h1 ELSE Store(h1, rb, g.b)
    IN  [heap  |-> h2,
         frame |-> [c |-> f.c, ra |-> ra, rb |-> rb, pc |-> g.pc,
                    out |-> g.out, blocks |-> g.blocks, oob |-> g.oob,
                    called |-> g.called]]

\* next() on session i.
Advance(i) ==
    /\ sess[i].pc \in {"start", "loop", "tail"}
    /\ LET r == Placed(heap, sess[i],
                       Resume(sess[i].c, Loaded(heap, sess[i])))
       IN  /\ heap' = r.heap
           /\ sess' = [sess EXCEPT ![i] = r.frame]
    /\ UNCHANGED <<sessionVars, recVars, appVars>>

PairNext == \E i \in SessionIds : Advance(i)

PairSpec == PairInit /\ [][PairNext]_vars

\* The generator created by the call c, driven alone until it ends.
RECURSIVE Drain(_, _)
Drain(c, g) ==
    IF g.pc \in {"done", "raised"} THEN g ELSE Drain(c, Resume(c, g))

\* s is an initial part of t.
IsPrefix(s, t) ==
    /\ Len(s) <= Len(t)
    /\ \A i \in 1..Len(s) : s[i] = t[i]

\* C13: however the resumptions of two sessions are interleaved, each has
\* emitted an initial part of what it emits when run alone, all of it once
\* it has ended, and two sessions created by the same call that have both
\* ended have emitted the same sequence.
C13_SessionsIndependent ==
    /\ \A i \in DOMAIN sess :
          LET alone == Drain(sess[i].c, NewGenerator)
          IN  /\ IsPrefix(sess[i].out, alone.out)
              /\ sess[i].pc # "raised"
              /\ sess[i].pc = "done" => sess[i].out = alone.out
    /\ \A i, j \in DOMAIN sess :
          (sess[i].c = sess[j].c /\ sess[i].pc = "done" /\ sess[j].pc = "done")
             => sess[i].out = sess[j].out

\* Both sessions are in the middle of their enumeration.
C13_Witness ==
    /\ sess # << >>
    /\ sess[1].c.alg = "rgs_exactly" /\ sess[2].c.alg = "rgs_range"
    /\ sess[1].pc = "loop" /\ sess[2].pc = "loop"
    /\ Len(sess[1].out) = 2 /\ Len(sess[2].out) = 3
    /\ sess[1].ra # sess[2].ra

-----------------------------------------------------------------------------
\* The memoised Stirling numbers of recurrencia_viz.py.  cache is the
\* module-level dictionary _stirling_cache (keys are pairs <<n, k>>), call
\* is the last call made from outside the module and what it returned, and
\* ncalls counts those calls.

RecMaxN == 3
MaxCalls == 2

\* _stirling_cache[(nn, kk)] = val, then return val.  how records the
\* branch of the function that produced the value.
Memo(c, nn, kk, val, how) ==
    [val   |-> val,
     how   |-> how,
     cache |-> (<<nn, kk>> :> val) @@ c]

\* stirling_s2 with the two terms of the recurrence added without the
\* factor k.
RECURSIVE stirling_s2_nofactor(_, _, _)
stirling_s2_nofactor(c, nn, kk) ==
    IF <<nn, kk>> \in DOMAIN c
    THEN [val |-> c[<<nn, kk>>], how |-> "hit", cache |-> c]
    ELSE IF nn = 0 /\ kk = 0 THEN Memo(c, nn, kk, 1, "base")
    ELSE IF nn > 0 /\ kk = 0 THEN Memo(c, nn, kk, 0, "base")
    ELSE IF nn = kk THEN Memo(c, nn, kk, 1, "base")
    ELSE IF kk < 0 \/ kk > nn THEN Memo(c, nn, kk, 0, "base")
    ELSE LET l == stirling_s2_nofactor(c, nn - 1, kk)
             r == stirling_s2_nofactor(l.cache, nn - 1, kk - 1)
         IN  Memo(r.cache, nn, kk, l.val + r.val, "rec")

\* stirling_s2(nn, kk) run on the cache c: the value returned and the
\* cache it leaves.  The left term k * stirling_s2(n-1, k) is evaluated
\* before the right one.
RECURSIVE stirling_s2(_, _, _)
stirling_s2(c, nn, kk) ==
    IF <<nn, kk>> \in DOMAIN c
    THEN [val |-> c[<<nn, kk>>], how |-> "hit", cache |-> c]
    ELSE IF nn = 0 /\ kk = 0 THEN Memo(c, nn, kk, 1, "base")
    ELSE IF nn > 0 /\ kk = 0 THEN Memo(c, nn, kk, 0, "base")
    ELSE IF nn = kk THEN Memo(c, nn, kk, 1, "base")
    ELSE IF kk < 0 \/ kk > nn THEN Memo(c, nn, kk, 0, "base")
    ELSE LET l == stirling_s2(c, nn - 1, kk)
             r == stirling_s2(l.cache, nn - 1, kk - 1)
         IN  Memo(r.cache, nn, kk, kk * l.val + r.val, "rec")

\* es_caso_base without the test n == k.
es_caso_base_noeq(nn, kk) ==
    \/ nn = 0 /\ kk = 0
    \/ nn > 0 /\ kk = 0
    \/ kk < 0 \/ kk > nn

\* es_caso_base(nn, kk)
es_caso_base(nn, kk) ==
    \/ nn = 0 /\ kk = 0
    \/ nn > 0 /\ kk = 0
    \/ nn = kk
    \/ kk < 0 \/ kk > nn

\* The arguments the calls are made with.
RecSizes == (-1)..RecMaxN
RecCounts == (-1)..(RecMaxN + 1)

\* What a call leaves in call.  The fields a function does not have are
\* zero or empty.
Call(fn, nn, kk, step, val, how, ret, total, tree) ==
    [fn |-> fn, n |-> nn, k |-> kk, step |-> step, val |-> val,
     how |-> how, ret |-> ret, total |-> total, tree |-> tree]

RecInit == SessionIdle /\ PairIdle /\ RecIdle /\ AppIdle

\* A call stirling_s2(nn, kk) from outside.
Call_stirling_s2(nn, kk) ==
    /\ ncalls < MaxCalls
    /\ LET r == stirling_s2(cache, nn, kk)
       IN  /\ cache' = r.cache
           /\ call' = Call("stirling_s2", nn, kk, << >>, r.val, r.how,
                           "int", 0, << >>)
    /\ ncalls' = ncalls + 1
    /\ UNCHANGED <<sessionVars, pairVars, appVars>>

\* -------------------------------------------------------------------
\* The call tree.  A RecNode is a record; an Optional["RecNode"] field is
\* the empty sequence (None) or a sequence of one node.

RecNode(nn, kk, depth, left, right) ==
    [n |-> nn, k |-> kk, depth |-> depth, left |-> left, right |-> right]

\* _build_call_tree(nn, kk, depth)
RECURSIVE build_call_tree(_, _, _)
build_call_tree(nn, kk, depth) ==
    IF es_caso_base(nn, kk) THEN RecNode(nn, kk, depth, << >>, << >>)
    ELSE RecNode(nn, kk, depth,
                 <<build_call_tree(nn - 1, kk, depth + 1)>>,
                 <<build_call_tree(nn - 1, kk - 1, depth + 1)>>)

\* The nodes in the order dfs of _enumerate_nodes visits them: the node at
\* position i gets idx = i - 1.
RECURSIVE Preorder(_)
Preorder(opt) ==
    IF opt = << >> THEN << >>
    ELSE <<opt[1]>> \o Preorder(opt[1].left) \o Preorder(opt[1].right)

\* _enumerate_nodes(root): the number of nodes.
enumerate_nodes(root) == Len(Preorder(<<root>>))

Min(x, y) == IF x <= y THEN x ELSE y

\* The step after `max(0, min(step, total_nodes - 1))`; None stays None.
ClipStep(step, total) ==
    IF step = << >> THEN step ELSE <<Max(0, Min(step[1], total - 1))>>

\* _draw_nodes: the calls stirling_s2(node.n, node.k) it makes for the
\* nodes with lo - 1 <= idx <= hi - 1, in the order of the traversal: the
\* first half of the range, then the second half on the cache the first
\* half left (which holds at least the pair of nodes[lo]).
RECURSIVE draw_nodes(_, _, _, _)
draw_nodes(c, nodes, lo, hi) ==
    IF lo > hi THEN c
    ELSE IF lo = hi THEN stirling_s2(c, nodes[lo].n, nodes[lo].k).cache
    ELSE LET mid == (lo + hi) \div 2
             c1  == draw_nodes(c, nodes, lo, mid)
         IN  IF <<nodes[lo].n, nodes[lo].k>> \in DOMAIN c1
             THEN draw_nodes(c1, nodes, mid + 1, hi)
             ELSE c1

\* The number of nodes _draw_nodes draws: those with idx <= max_step, all
\* of them when max_step is None.
Visible(max_step, total) ==
    IF max_step = << >> THEN total ELSE Min(total, max_step[1] + 1)

\* The largest n dibujar_arbol_recurrencia draws, and the largest tree_n
\* of the sidebar.
TreeLimit == 8
SidebarMax == 12

\* dibujar_arbol_recurrencia(nn, kk, step) on the cache c: what it
\* returns ("fig" for the bare figure, "pair" for (fig, total_nodes)) and
\* the cache it leaves.
dibujar_arbol_recurrencia(c, nn, kk, step) ==
    IF nn < 0 \/ kk < 0 \/ kk > nn
    THEN [ret |-> "fig", total |-> 0, cache |-> c]
    ELSE IF nn > TreeLimit
    THEN [ret |-> "fig", total |-> 0, cache |-> c]
    ELSE LET root  == build_call_tree(nn, kk, 0)
             total == enumerate_nodes(root)
         IN  [ret   |-> "pair",
              total |-> total,
              cache |-> draw_nodes(c, Preorder(<<root>>), 1,
                                   Visible(ClipStep(step, total), total))]

\* The arguments of the drawing calls: the small trees, the limit and
\* what lies above it up to the sidebar's maximum.
DrawSizes == RecSizes \cup {TreeLimit, TreeLimit + 1, SidebarMax}
DrawSteps == {<< >>, <<0>>, <<2>>}

\* A call _build_call_tree(nn, kk).
Call_build_call_tree(nn, kk) ==
    /\ ncalls < MaxCalls
    /\ call' = Call("_build_call_tree", nn, kk, << >>, 0, "", "node", 0,
                    <<build_call_tree(nn, kk, 0)>>)
    /\ ncalls' = ncalls + 1
    /\ UNCHANGED <<cache, sessionVars, pairVars, appVars>>

\* A call dibujar_arbol_recurrencia(nn, kk, step).
Call_dibujar_arbol_recurrencia(nn, kk, step) ==
    /\ ncalls < MaxCalls
    /\ LET r == dibujar_arbol_recurrencia(cache, nn, kk, step)
       IN  /\ cache' = r.cache
           /\ call' = Call("dibujar_arbol_recurrencia", nn, kk, step, 0, "",
                           r.ret, r.total, << >>)
    /\ ncalls' = ncalls + 1
    /\ UNCHANGED <<sessionVars, pairVars, appVars>>

RecNext ==
    \/ \E nn \in RecSizes, kk \in RecCounts : Call_stirling_s2(nn, kk)
    \/ \E nn \in RecSizes, kk \in RecCounts : Call_build_call_tree(nn, kk)

\* The tree view of the application: the drawing calls alone, on the
\* cache their own stirling_s2 calls fill.
TreeNext ==
    \E nn \in DrawSizes, kk \in RecCounts, step \in DrawSteps :
        Call_dibujar_arbol_recurrencia(nn, kk, step)

TreeSpec == RecInit /\ [][TreeNext]_vars

RecSpec == RecInit /\ [][RecNext]_vars

\* The last call was stirling_s2.
Returned == call # << >> /\ call.fn = "stirling_s2"

\* Every entry the cache holds for a pair 0 <= k <= n is the Stirling
\* number, so a hit returns the same value as a computation.
CacheSound ==
    \A p \in DOMAIN cache :
        (0 <= p[2] /\ p[2] <= p[1]) => cache[p] = StirlingRef(p[1], p[2])

\* C14: for 0 <= k <= n, whatever the cache held, stirling_s2(n, k)
\* returns the value of the recurrence S(0,0)=1, S(n,0)=0, S(n,n)=1,
\* S(n,k)=k*S(n-1,k)+S(n-1,k-1), which is the number of encodings
\* rgs_exactly(n, k) emits.
C14_StirlingIsTheCount ==
    /\ CacheSound
    /\ (Returned /\ 0 <= call.k /\ call.k <= call.n) =>
          /\ call.val = StirlingRef(call.n, call.k)
          /\ call.val = Cardinality(EmittedBy_rgs_exactly(call.n, call.k))

\* A call stirling_s2(3, 2) answered by the recurrence after an earlier
\* call had put the entry of an invalid pair in the cache.
C14_Witness ==
    /\ Returned /\ call.n = 3 /\ call.k = 2 /\ call.val = 3
    /\ call.how = "rec"
    /\ <<-1, -1>> \in DOMAIN cache
    /\ ncalls = 2

\* C15: stirling_s2(n, k) returns 0 whenever k < 0 or k > n, negative n
\* included.
C15_ZeroOutsideRange ==
    (Returned /\ (call.k < 0 \/ call.k > call.n)) => call.val = 0

\* The last call was _build_call_tree.
Built == call # << >> /\ call.fn = "_build_call_tree"

\* The nodes of a tree.
RECURSIVE Nodes(_)
Nodes(opt) ==
    IF opt = << >> THEN {}
    ELSE {opt[1]} \cup Nodes(opt[1].left) \cup Nodes(opt[1].right)

\* C16: es_caso_base holds exactly for the pairs stirling_s2 answers
\* without recursing; in the tree of _build_call_tree(n, k) a node has no
\* children iff es_caso_base holds for it, every other node (n', k') has
\* the two children (n'-1, k') and (n'-1, k'-1); the tree is finite (no
\* deeper than n) for every integer pair.
C16_BaseCasesAreLeaves ==
    /\ Returned =>
          /\ call.how = "base" => es_caso_base(call.n, call.k)
          /\ call.how = "rec" => ~es_caso_base(call.n, call.k)
    /\ Built =>
          /\ call.tree[1].n = call.n /\ call.tree[1].k = call.k
          /\ \A t \in Nodes(call.tree) :
                /\ t.depth <= Max(call.n, 0)
                /\ es_caso_base(t.n, t.k) <=>
                      (t.left = << >> /\ t.right = << >>)
                /\ ~es_caso_base(t.n, t.k) =>
                      /\ Len(t.left) = 1 /\ Len(t.right) = 1
                      /\ t.left[1].n = t.n - 1 /\ t.left[1].k = t.k
                      /\ t.right[1].n = t.n - 1 /\ t.right[1].k = t.k - 1
                      /\ t.left[1].depth = t.depth + 1
                      /\ t.right[1].depth = t.depth + 1

\* The tree of S(3, 2) was built: five nodes, the root with two children;
\* before it stirling_s2(3, 3) was answered as a base case.
C16_Witness ==
    /\ Built /\ call.n = 3 /\ call.k = 2
    /\ enumerate_nodes(call.tree[1]) = 5
    /\ Len(call.tree[1].left) = 1
    /\ call.tree[1].right[1].left # << >>
    /\ <<3, 3>> \in DOMAIN cache

\* The last call was dibujar_arbol_recurrencia.
Drawn == call # << >> /\ call.fn = "dibujar_arbol_recurrencia"

\* C17: dibujar_arbol_recurrencia returns the pair (fig, total_nodes) for
\* every n, k and step, so that `fig, total_nodes = ...` of app.main
\* succeeds for 1 <= tree_n <= 12, 0 <= tree_k <= tree_n.
C17_AlwaysReturnsPair ==
    Drawn => call.ret = "pair"

-----------------------------------------------------------------------------
\* Termination.  The session is followed at a finer grain: a call of
\* _next_X is one step for each iteration of its outer `while True`, and
\* between two iterations the generator is at pc = "retry", inside the
\* call, with the arrays the iteration left.  The other successor routines
\* have no such loop (their scans count c down and their fills count i up)
\* and stay one step.  The consumer is `list(...)` of
\* app.generar_particiones, which calls next() until the generator ends.

\* The generator g after one more iteration of _next_X.
StepX(nn, kk, g) ==
    LET r == NextXIter(Arrays(g.a, g.b), nn, kk)
    IN  IF r.again
        THEN [Stored(g, r.st, "_next_X") EXCEPT !.pc = "retry"]
        ELSE AfterNext(g, [ret |-> r.ret, st |-> r.st], "_next_X")

\* next() on a generator made by rgs_exactly, up to the end of the first
\* iteration of _next_X if the call is made.
rgs_exactly_enter ==
    /\ alg = "rgs_exactly"
    /\ Suspended
    /\ Becomes(IF pc = "loop" THEN StepX(n, k, Gen)
               ELSE Resume_rgs_exactly(n, k, Gen))

\* One more iteration of the outer loop of _next_X.
next_X_retry ==
    /\ alg = "rgs_exactly"
    /\ pc = "retry"
    /\ Becomes(StepX(n, k, Gen))

StepNext ==
    rgs_all \/ rgs_exactly_enter \/ next_X_retry \/ rgs_exactly_y \/ rgs_range

StepSpec == Init /\ [][StepNext]_vars

\* The parameters of the session are valid.
ValidSession ==
    /\ n >= 0
    /\ alg \in {"rgs_exactly", "rgs_exactly_y"} => ValidK
    /\ alg = "rgs_range" => ValidRange

\* The array arr of length len read as a number in base len + 1, first
\* position most significant: it orders arrays as the lexicographic order
\* does.
RECURSIVE Value(_, _, _)
Value(arr, len, i) ==
    IF i >= len THEN 0
    ELSE Rd(arr, len, i) * (len + 1) ^ (len - 1 - i) + Value(arr, len, i + 1)

\* More than the value of any array of length len with labels 0..len.
Ceiling(len) == IF len <= 0 THEN 1 ELSE (len + 1) ^ len

\* What is left of a session: nothing once it has ended, one step at a
\* last yield, and otherwise one more than the distance of a from the
\* ceiling.
Variant ==
    IF pc \in {"done", "raised"} THEN 0
    ELSE IF pc = "tail" THEN 1
    ELSE IF pc = "start" THEN Ceiling(n) + 2
    ELSE 1 + Ceiling(n) - Value(a, n, 0)

\* C19: every successor call made in a session with valid parameters
\* terminates, the retry loop of _next_X is left after finitely many
\* skipped states, and every session reaches exhaustion after finitely
\* many encodings: every step of a session, an iteration of the retry loop
\* included, strictly lowers a natural number and leaves the session
\* ended or at a point where its next step applies, and a session with
\* valid parameters does not end by an exception.
C19_SessionsTerminate ==
    [][/\ Variant' < Variant
       /\ Variant' >= 0
       /\ pc' \in {"loop", "tail", "retry", "done", "raised"}
       /\ pc' = "retry" => alg = "rgs_exactly"
       /\ ValidSession => pc' # "raised"]_vars

\* A call of _next_X in rgs_exactly(5, 3) is between two iterations: it
\* has skipped a state after six encodings were emitted.
C19_Witness ==
    /\ alg = "rgs_exactly" /\ n = 5 /\ k = 3
    /\ pc = "retry"
    /\ Len(out) = 6

-----------------------------------------------------------------------------
\* Algorithm Y against Algorithm X.

\* The parameters for which both rgs_exactly and rgs_exactly_y run their
\* algorithm rather than a trivial case.
BothRun == n >= 3 /\ 2 <= k /\ k <= n - 1

\* C20: for n >= 3 and 2 <= k <= n-1, rgs_exactly_y(n, k) emits the same
\* encodings in the same order as rgs_exactly(n, k): the first states are
\* identical, from every state the session is suspended in _next_Y and
\* _next_X leave the same a (and b) and report the same result, so both
\* are exhausted at the same step.
C20_YFollowsX ==
    (alg = "rgs_exactly_y" /\ BothRun) =>
        LET x == Drain_rgs_exactly(n, k, NewGenerator)
            fx == first_X(ZeroList(n), ZeroList(n), n, k)
            fy == first_Y(ZeroList(n), ZeroList(n), n, k)
            nx == next_X(a, b, n, k)
            ny == next_Y(a, b, n, k)
        IN  /\ fy.a = fx.a /\ fy.b = fx.b
            /\ IsPrefix(out, x.out)
            /\ pc = "loop" =>
                  /\ ny.ret = nx.ret
                  /\ ny.st.a = nx.st.a
                  /\ ny.st.b = nx.st.b
            /\ pc = "done" => out = x.out

\* rgs_exactly_y(5, 3) has ended after the 25 encodings of S(5,3), the
\* seventh of which is reached by the repair pass (the successor of
\* [0,0,1,2,2] by increment and refill alone would be [0,1,0,0,0]).
C20_Witness ==
    /\ alg = "rgs_exactly_y" /\ n = 5 /\ k = 3
    /\ pc = "done"
    /\ Len(out) = 25
    /\ "_next_Y" \in called
    /\ \E i \in 1..(Len(out) - 1) :
          /\ out[i] = [p \in 0..4 |-> <<0, 0, 1, 2, 2>>[p + 1]]
          /\ out[i + 1] = [p \in 0..4 |-> <<0, 1, 0, 0, 2>>[p + 1]]

-----------------------------------------------------------------------------
\* The bound array.

\* The largest element of a non-empty set of integers.
Largest(S) == CHOOSE x \in S : \A y \in S : y <= x

\* max(arr[0..i-1])
PrefixMax(arr, i) == Largest({arr[j] : j \in 0..(i - 1)})

\* The session has its working arrays and is suspended after emitting a
\* (pc = "loop") or is inside _next_X at a state the call skips
\* (pc = "retry").
HasArrays == pc \in {"loop", "retry"}

\* C21: at every state from which an encoding is emitted, in all four
\* enumerators and for valid parameters, b[i] = max(a[0..i-1]) and
\* a[i] <= b[i] + 1 for every 0 < i < n; a[i] <= b[i] + 1 also holds in
\* the states _next_X skips.
C21_BoundArray ==
    (ValidSession /\ HasArrays) =>
        \A i \in 1..(n - 1) :
            /\ a[i] <= b[i] + 1
            /\ pc = "loop" => b[i] = PrefixMax(a, i)

\* rgs_exactly(5, 3) is inside _next_X at the skipped state [0,0,1,0,0],
\* whose bounds are [0,0,0,1,1].
C21_Witness ==
    /\ alg = "rgs_exactly" /\ n = 5 /\ k = 3
    /\ pc = "retry"
    /\ a = [p \in 0..4 |-> <<0, 0, 1, 0, 0>>[p + 1]]
    /\ b = [p \in 0..4 |-> <<0, 0, 0, 1, 1>>[p + 1]]

-----------------------------------------------------------------------------
\* Exhaustion.

\* The successor routine of the session called on its arrays as they are.
Successor ==
    CASE alg = "rgs_all" -> next_V(a, b, n)
      [] alg = "rgs_exactly" -> next_X(a, b, n, k)
      [] alg = "rgs_exactly_y" -> next_Y(a, b, n, k)
      [] OTHER -> next_Z(a, b, n, kmin, kmax)

\* One more call of the successor routine returns False and leaves the
\* arrays as they are.
ExhaustedAgain ==
    /\ ~Successor.ret
    /\ ~Successor.st.err
    /\ Successor.st.a = a
    /\ Successor.st.b = b

\* C22: whenever _next_V, _next_X, _next_Y or _next_Z returns False in a
\* session (the step that ends a session suspended in its loop), the arrays
\* are as they were when the call began, the call was not in a retry of
\* _next_X, and a further call returns False again.
C22_CleanExhaustion ==
    [][(pc \in {"loop", "retry"} /\ pc' = "done") =>
          /\ pc = "loop"
          /\ a' = a
          /\ b' = b
          /\ ExhaustedAgain']_vars

\* rgs_all(4) has ended: _next_V returned False on [0,1,2,3] after fifteen
\* encodings.
C22_Witness ==
    /\ alg = "rgs_all" /\ n = 4
    /\ pc = "done"
    /\ "_next_V" \in called
    /\ Len(out) = 15
    /\ a = [p \in 0..3 |-> p]

-----------------------------------------------------------------------------
\* One session and its consumer on the heap.  Every value the generator
\* yields is an object too: the consumer keeps the addresses it was handed
\* (emitted) and may write into those objects.  Here sess is the frame of
\* the one session, with the fields of NewFrame and
\*   yb       the yield_blocks argument of the call
\*   emitted  the addresses handed to the consumer, in order
\*   touched  the addresses the consumer has written to
\*   writes   the number of writes the consumer has made
\* while out and blocks keep the values as they were when yielded.

\* The number of writes the consumer makes.
MaxWrites == 1

\* `yield a`: the consumer is handed the working array itself
Yielded_alias(h, ra, val) ==
    IF ra # 0 THEN [addr |-> ra, heap |-> h]
    ELSE [addr |-> Cardinality(DOMAIN h) + 1,
          heap |-> Store(h, Cardinality(DOMAIN h) + 1, val)]

\* `yield rgs_to_blocks(a) if yield_blocks else list(a)`: both expressions
\* build a new object holding val; the consumer is handed its address.
Yielded(h, ra, val) ==
    [addr |-> Cardinality(DOMAIN h) + 1,
     heap |-> Store(h, Cardinality(DOMAIN h) + 1, val)]

AliasFrame(c, yb) ==
    [c |-> c, yb |-> yb, ra |-> 0, rb |-> 0, pc |-> "start", out |-> << >>,
     blocks |-> << >>, oob |-> FALSE, called |-> {}, emitted |-> << >>,
     touched |-> {}, writes |-> 0]

AliasInit ==
    /\ sess \in {AliasFrame(c, yb) : c \in PairCalls, yb \in BOOLEAN}
    /\ heap = << >>
    /\ SessionIdle
    /\ RecIdle
    /\ AppIdle

\* The heap and the frame after a resumption took the frame f to the
\* generator g: the arrays are stored as in Placed, and if the resumption
\* ended at a yield the yielded object is created and handed over.
AliasPlaced(h, f, g) ==
    LET r == Placed(h, f, g)
        y == Yielded(r.heap, r.frame.ra,
                     IF f.yb THEN g.blocks[Len(g.blocks)]
                     ELSE g.out[Len(g.out)])
        yielded == Len(g.out) > Len(f.out)
    IN  [heap  |-> IF yielded THEN y.heap ELSE r.heap,
         frame |-> [f EXCEPT !.ra = r.frame.ra, !.rb = r.frame.rb,
                             !.pc = g.pc, !.out = g.out,
                             !.blocks = g.blocks, !.oob = g.oob,
                             !.called = g.called,
                             !.emitted = IF yielded THEN Append(@, y.addr)
                                         ELSE @]]

\* next() on the session.
AliasAdvance ==
    /\ sess.pc \in {"start", "loop", "tail"}
    /\ LET r == AliasPlaced(heap, sess, Resume(sess.c, Loaded(heap, sess)))
       IN  /\ heap' = r.heap
           /\ sess' = r.frame
    /\ UNCHANGED <<sessionVars, recVars, appVars>>

\* The consumer writes into the object at `at`, one of those it was handed.
ConsumerWrites(at, obj) ==
    /\ sess.writes < MaxWrites
    /\ heap' = Store(heap, at, obj)
    /\ sess' = [sess EXCEPT !.touched = @ \cup {at}, !.writes = @ + 1]
    /\ UNCHANGED <<sessionVars, recVars, appVars>>

\* The object the consumer was handed last: `for e in gen: ...` writes
\* into e before it asks for the next value.
Latest == sess.emitted[Len(sess.emitted)]

\* e[i] = (e[i] + 1) % n on the emitted encoding
WriteLabel ==
    /\ sess.emitted # << >>
    /\ ~sess.yb
    /\ sess.c.n > 1
    /\ \E i \in DOMAIN heap[Latest] :
          ConsumerWrites(Latest,
                         [heap[Latest] EXCEPT ![i] = (@ + 1) % sess.c.n])

\* e.pop() on the emitted block list
PopBlock ==
    /\ sess.emitted # << >>
    /\ sess.yb
    /\ Len(heap[Latest]) > 0
    /\ ConsumerWrites(Latest, SubSeq(heap[Latest], 1, Len(heap[Latest]) - 1))

AliasNext == AliasAdvance \/ WriteLabel \/ PopBlock

AliasSpec == AliasInit /\ [][AliasNext]_vars

\* The value the session yielded at its j-th yield.
Sent(j) == IF sess.yb THEN sess.blocks[j] ELSE sess.out[j]

\* What each call of S emits when nobody disturbs it.
RECURSIVE SoloOver(_)
SoloOver(S) ==
    IF S = {} THEN << >>
    ELSE LET c == CHOOSE x \in S : TRUE
         IN  (c :> Drain(c, NewGenerator)) @@ SoloOver(S \ {c})

Solo == SoloOver(PairCalls)

\* C23: every emitted value is a fresh object, not the working array:
\* later successor calls never change an emitted encoding or block list,
\* and a consumer that writes into an emitted value changes nothing of
\* what the session emits afterwards.
C23_EmittedAreFresh ==
    /\ Len(sess.emitted) = Len(sess.out)
    /\ \A j \in 1..Len(sess.emitted) :
          /\ sess.emitted[j] \notin {sess.ra, sess.rb}
          /\ \A i \in 1..(j - 1) : sess.emitted[i] # sess.emitted[j]
          /\ sess.emitted[j] \notin sess.touched =>
                heap[sess.emitted[j]] = Sent(j)
    /\ sess.pc # "raised"
    /\ IsPrefix(sess.out, Solo[sess.c].out)
    /\ IsPrefix(sess.blocks, Solo[sess.c].blocks)
    /\ sess.pc = "done" => sess.out = Solo[sess.c].out

\* rgs_all(3) has ended after five encodings although the consumer wrote
\* into the first one it was handed, which no longer holds what was
\* yielded.
C23_Witness ==
    /\ sess.c.alg = "rgs_all" /\ sess.c.n = 3 /\ ~sess.yb
    /\ sess.pc = "done"
    /\ Len(sess.emitted) = 5
    /\ sess.emitted[1] \in sess.touched
    /\ heap[sess.emitted[1]] # sess.out[1]
    /\ heap[sess.emitted[2]] = sess.out[2]

-----------------------------------------------------------------------------
\* The partition view of src/app.py.  Streamlit runs main() once for every
\* click; one action is one such run: init_session_state, the handler of
\* the button clicked, then the main content.  session_state is
\* st.session_state; ui records which button the run handled (event) and
\* whether `partitions[idx]` of the main content raised (error).

\* The entries of the selectbox "Modo de enumeración".
ModoTodas == "Todas las particiones de {1..n}"
ModoExactamente == "Exactamente k bloques"

\* init_session_state on an empty st.session_state; None is << >>.
init_session_state ==
    [partitions |-> << >>, current_index |-> 0, current_n |-> << >>,
     current_k |-> << >>, tree_n |-> 4, tree_k |-> 2, tree_step |-> 0,
     tree_anim_play |-> FALSE]

\* partes.sort(key=len): the lists with len block lists, then those with
\* more, each group in the order it had (the sort is stable).
RECURSIVE SortByLen(_, _, _)
SortByLen(partes, len, top) ==
    IF len > top THEN << >>
    ELSE LET HasLen(p) == Len(p) = len
         IN  SelectSeq(partes, HasLen) \o SortByLen(partes, len + 1, top)

\* The generator g of the call c after m more calls of next(); one that
\* has ended stays as it is.
RECURSIVE Resumed(_, _, _)
Resumed(c, g, m) ==
    IF m = 0 \/ g.pc \in {"done", "raised"} THEN g
    ELSE IF m = 1 THEN Resume(c, g)
    ELSE Resumed(c, Resumed(c, g, m \div 2), m - m \div 2)

\* The generator g of the call c once list(gen) has run it to its end.
RECURSIVE Exhausted(_, _, _)
Exhausted(c, g, m) ==
    IF g.pc \in {"done", "raised"} THEN g
    ELSE Exhausted(c, Resumed(c, g, m), 2 * m)

\* list(gen) followed by partes.sort(key=len), for the generator of the
\* call c with yield_blocks=True; raised tells that the generator raised.
SortedList(c) ==
    LET g == Exhausted(c, NewGenerator, 1)
    IN  [raised |-> g.pc = "raised",
         partes |-> SortByLen(g.blocks, 0, c.n)]

\* The list generar_particiones(nn, modo, kk) builds.
Partes(nn, modo, kk) ==
    IF modo = ModoTodas
    THEN SortedList([alg |-> "rgs_all", n |-> nn, k |-> 0, kmin |-> 0,
                     kmax |-> 0])
    ELSE IF modo = ModoExactamente
    THEN IF kk = << >> THEN [raised |-> FALSE, partes |-> << >>]
         ELSE SortedList([alg |-> "rgs_exactly", n |-> nn, k |-> kk[1],
                          kmin |-> 0, kmax |-> 0])
    ELSE [raised |-> FALSE, partes |-> << >>]

\* What the sidebar can hand to generar_particiones: n of the number
\* input (up to MaxN), the mode, and k of the second number input, which
\* exists in the mode "Exactamente k bloques" only and runs over 0..n.
GenerarInputs ==
    {<<nn, ModoTodas, << >> >> : nn \in 0..MaxN}
        \cup {<<nn, ModoExactamente, <<kk>> >> : nn \in 0..MaxN, kk \in 0..MaxN}

SidebarInputs == {i \in GenerarInputs : i[3] # << >> => i[3][1] <= i[1]}

\* The lists of all the sidebar's inputs, computed once.
RECURSIVE PartesOver(_)
PartesOver(S) ==
    IF S = {} THEN << >>
    ELSE LET i == CHOOSE x \in S : TRUE
         IN  (i :> Partes(i[1], i[2], i[3])) @@ PartesOver(S \ {i})

PartesTable == PartesOver(SidebarInputs)

\* generar_particiones(nn, modo, kk) on the session state s; an exception
\* of the generator leaves s as it is.
generar_particiones(s, nn, modo, kk) ==
    IF PartesTable[<<nn, modo, kk>>].raised THEN s
    ELSE [s EXCEPT !.partitions = PartesTable[<<nn, modo, kk>>].partes,
                   !.current_index = 0,
                   !.current_n = <<nn>>,
                   !.current_k = kk]

\* avanzar without the test against the last index
avanzar_unguarded(s) ==
    IF s.partitions # << >>
    THEN [s EXCEPT !.current_index = @ + 1]
    ELSE s

\* avanzar()
avanzar(s) ==
    IF s.partitions # << >> /\ s.current_index < Len(s.partitions) - 1
    THEN [s EXCEPT !.current_index = @ + 1]
    ELSE s

\* retroceder()
retroceder(s) ==
    IF s.partitions # << >> /\ s.current_index > 0
    THEN [s EXCEPT !.current_index = @ - 1]
    ELSE s

\* The main content of the partition view on the session state s:
\* nothing but a notice while partitions is empty, else
\* `partitions[idx]`, which raises IndexError outside -len..len-1.
ContentRaises(s) ==
    /\ s.partitions # << >>
    /\ \/ s.current_index > Len(s.partitions) - 1
       \/ s.current_index < -Len(s.partitions)

\* What a run of main() that handled `event` and left the session state
\* s has shown.
Shown(event, s) == [event |-> event, error |-> ContentRaises(s)]

AppInit ==
    /\ session_state = init_session_state
    /\ ui = [event |-> "start", error |-> FALSE]
    /\ SessionIdle
    /\ PairIdle
    /\ RecIdle

\* "Generar particiones"
Generar ==
    /\ \E i \in SidebarInputs :
          session_state' =
              generar_particiones(session_state, i[1], i[2], i[3])
    /\ ui' = Shown("generar_particiones", session_state')
    /\ UNCHANGED <<sessionVars, pairVars, recVars>>

\* "Siguiente"
Siguiente ==
    /\ session_state' = avanzar(session_state)
    /\ ui' = Shown("avanzar", session_state')
    /\ UNCHANGED <<sessionVars, pairVars, recVars>>

\* "Anterior"
Anterior ==
    /\ session_state' = retroceder(session_state)
    /\ ui' = Shown("retroceder", session_state')
    /\ UNCHANGED <<sessionVars, pairVars, recVars>>

AppNext == Generar \/ Siguiente \/ Anterior

AppSpec == AppInit /\ [][AppNext]_vars

\* current_index is a position of partitions (0 while it is empty).
IndexInRange ==
    /\ session_state.current_index >= 0
    /\ session_state.partitions # << >> =>
          session_state.current_index <= Len(session_state.partitions) - 1
    /\ ~ui.error

\* What one run may do to the session state.
Navigation ==
    /\ ui'.event = "generar_particiones" => session_state'.current_index = 0
    /\ ui'.event \in {"avanzar", "retroceder"} =>
          /\ session_state'.partitions = session_state.partitions
          /\ session_state'.current_n = session_state.current_n
          /\ session_state'.current_k = session_state.current_k
    /\ (/\ ui'.event = "avanzar"
        /\ session_state.current_index = Len(session_state.partitions) - 1)
          => session_state'.current_index = session_state.current_index
    /\ (ui'.event = "retroceder" /\ session_state.current_index = 0)
          => session_state'.current_index = session_state.current_index

\* C24: after any sequence of generar_particiones, avanzar and retroceder
\* current_index >= 0 and, while partitions is not empty, current_index <=
\* len(partitions) - 1; generar_particiones sets current_index to 0,
\* avanzar at the last index and retroceder at index 0 leave it as it is,
\* and neither of the two changes partitions, current_n or current_k.
C24_IndexStaysInRange == []IndexInRange /\ [][Navigation]_vars

\* "Siguiente" was clicked on the last of the five partitions of {1..3},
\* the one with three blocks.
C24_Witness ==
    /\ ui.event = "avanzar"
    /\ session_state.current_n = <<3>> /\ session_state.current_k = << >>
    /\ Len(session_state.partitions) = 5
    /\ session_state.current_index = 4
    /\ Len(session_state.partitions[5]) = 3
    /\ Len(session_state.partitions[1]) = 1

-----------------------------------------------------------------------------
\* The recurrence-tree view of src/app.py.  One action is one run of
\* main() in that view: the handler of the button clicked, if any, then
\* the main content: the tree drawn up to tree_step, the slider, and the
\* auto-play.  ui records the event the run handled, the error that ended
\* it ("" if none), the value and the maximum the slider was created with
\* (<< >> if the run did not get that far), and whether st_autorefresh was
\* called, which schedules the next run.

\* Largest tree_n chosen with "Mostrar árbol".
TreeMaxN == 4

\* The slider created with min_value=0, max_value=hi, value=value accepts
\* its arguments.
SliderAccepts(value, hi) == 0 <= value /\ value <= hi

\* The auto-play block: one step further, or the end of the auto-play at
\* the last node.
AutoPlay(s, total) ==
    IF ~s.tree_anim_play THEN s
    ELSE IF s.tree_step < total - 1
    THEN [s EXCEPT !.tree_step = @ + 1]
    ELSE [s EXCEPT !.tree_anim_play = FALSE]

\* The run ends with an exception: nothing after it is executed.
Aborted(event, s, c, error, slider) ==
    [state |-> s, cache |-> c,
     ui |-> [event |-> event, error |-> error, slider |-> slider,
             refresh |-> FALSE]]

\* The main content from the slider on, total_nodes being total; moved is
\* the position the user dragged the slider to (<< >> if the slider was
\* not moved: it then returns the value it was created with).
FromSlider(event, s, c, total, moved) ==
    IF ~SliderAccepts(s.tree_step, Max(total - 1, 0))
    THEN Aborted(event, s, c, "StreamlitAPIException",
                 <<s.tree_step, Max(total - 1, 0)>>)
    ELSE [state |-> AutoPlay(IF moved # << >> /\ moved[1] # s.tree_step
                             THEN [s EXCEPT !.tree_step = moved[1]]
                             ELSE s,
                             total),
          cache |-> c,
          ui    |-> [event |-> event, error |-> "",
                     slider |-> <<s.tree_step, Max(total - 1, 0)>>,
                     refresh |-> s.tree_anim_play]]

\* The main content of the tree view, r being what
\* dibujar_arbol_recurrencia returned: `fig, total_nodes = ...` fails on a
\* bare figure.
FromDrawing(event, s, r, moved) ==
    IF r.ret # "pair"
    THEN Aborted(event, s, r.cache, "TypeError", << >>)
    ELSE FromSlider(event, s, r.cache, r.total, moved)

\* One run of main() with the session state s after the handler of event.
TreeContent(event, s, c, moved) ==
    FromDrawing(event, s,
                dibujar_arbol_recurrencia(c, s.tree_n, s.tree_k,
                                          <<s.tree_step>>),
                moved)

\* The run leaves what r says.
Leaves(r) ==
    /\ session_state' = r.state
    /\ cache' = r.cache
    /\ ui' = r.ui
    /\ UNCHANGED <<sessionVars, pairVars, call, ncalls>>

TreeViewInit ==
    /\ session_state = init_session_state
    /\ ui = [event |-> "start", error |-> "", slider |-> << >>,
             refresh |-> FALSE]
    /\ SessionIdle
    /\ PairIdle
    /\ RecIdle

\* "Mostrar árbol" with the two number inputs at nn and kk
MostrarArbol ==
    \E nn \in 1..TreeMaxN :
        \E kk \in 0..nn :
            Leaves(TreeContent("Mostrar árbol",
                               [session_state EXCEPT !.tree_n = nn,
                                                     !.tree_k = kk],
                               cache, << >>))

\* "Play árbol"
PlayArbol ==
    Leaves(TreeContent("Play árbol",
                       [session_state EXCEPT !.tree_anim_play = TRUE],
                       cache, << >>))

\* "Pause árbol"
PauseArbol ==
    Leaves(TreeContent("Pause árbol",
                       [session_state EXCEPT !.tree_anim_play = FALSE],
                       cache, << >>))

\* The user drags the slider the last run showed to another position.
MoverSlider ==
    /\ ui.error = ""
    /\ ui.slider # << >>
    /\ \E v \in 0..ui.slider[2] :
          /\ v # ui.slider[1]
          /\ Leaves(TreeContent("slider", session_state, cache, <<v>>))

\* The run st_autorefresh scheduled (also the first run of the view, with
\* nothing clicked).
AutoRefresh ==
    /\ ui.refresh \/ ui.event = "start"
    /\ Leaves(TreeContent("autorefresh", session_state, cache, << >>))

TreeViewNext ==
    MostrarArbol \/ PlayArbol \/ PauseArbol \/ MoverSlider \/ AutoRefresh

TreeViewSpec == TreeViewInit /\ [][TreeViewNext]_vars

\* total_nodes of the tree for the current tree_n and tree_k.
TotalNodes ==
    enumerate_nodes(build_call_tree(session_state.tree_n,
                                    session_state.tree_k, 0))

\* C25: in the recurrence-tree view, after any sequence of "Mostrar
\* árbol" (1 <= tree_n <= 8, 0 <= tree_k <= tree_n), play, pause, slider
\* moves and auto-refresh runs, tree_step is within 0..total_nodes - 1 of
\* the tree for the current tree_n and tree_k, and the value handed to the
\* slider never exceeds the slider's maximum.
C25_StepWithinTree ==
    /\ 0 <= session_state.tree_step
    /\ session_state.tree_step <= TotalNodes - 1
    /\ ui.slider # << >> => ui.slider[1] <= ui.slider[2]

-----------------------------------------------------------------------------
\* The indices of _enumerate_nodes and what _draw_nodes and _draw_edges
\* draw for a step of the animation.

\* dfs numbering a node after its two subtrees
RECURSIVE dfs_postorder(_, _)
dfs_postorder(opt, counter) ==
    IF opt = << >> THEN [tree |-> << >>, counter |-> counter]
    ELSE LET l == dfs_postorder(opt[1].left, counter)
             r == dfs_postorder(opt[1].right, l.counter)
         IN  [tree    |-> <<[n |-> opt[1].n, k |-> opt[1].k,
                             depth |-> opt[1].depth, idx |-> r.counter,
                             left |-> l.tree, right |-> r.tree]>>,
              counter |-> r.counter + 1]

\* dfs(node) of _enumerate_nodes, entered with counter[0] = counter: the
\* tree with idx set in every node, and counter[0] afterwards.
RECURSIVE dfs(_, _)
dfs(opt, counter) ==
    IF opt = << >> THEN [tree |-> << >>, counter |-> counter]
    ELSE LET l == dfs(opt[1].left, counter + 1)
             r == dfs(opt[1].right, l.counter)
         IN  [tree    |-> <<[n |-> opt[1].n, k |-> opt[1].k,
                             depth |-> opt[1].depth, idx |-> counter,
                             left |-> l.tree, right |-> r.tree]>>,
              counter |-> r.counter]

\* `max_step is None or idx <= max_step`
Within(idx, max_step) == max_step = << >> \/ idx <= max_step[1]

\* _draw_nodes(ax, node, max_step): the idx of the nodes it draws.
RECURSIVE draw_nodes_idx(_, _)
draw_nodes_idx(opt, max_step) ==
    IF opt = << >> THEN {}
    ELSE (IF Within(opt[1].idx, max_step) THEN {opt[1].idx} ELSE {})
             \cup draw_nodes_idx(opt[1].left, max_step)
             \cup draw_nodes_idx(opt[1].right, max_step)

\* The arrow from node to child, if _draw_edges draws it.
Arrow(node, child, max_step) ==
    IF child # << >> /\ (max_step = << >>
                          \/ (node.idx <= max_step[1]
                              /\ child[1].idx <= max_step[1]))
    THEN {<<node.idx, child[1].idx>>}
    ELSE {}

\* _draw_edges(ax, node, max_step): the arrows it draws, each as the pair
\* of the idx of its origin and of its destination.
RECURSIVE draw_edges(_, _)
draw_edges(opt, max_step) ==
    IF opt = << >> THEN {}
    ELSE Arrow(opt[1], opt[1].left, max_step)
             \cup draw_edges(opt[1].left, max_step)
             \cup Arrow(opt[1], opt[1].right, max_step)
             \cup draw_edges(opt[1].right, max_step)

\* The idx of the nodes in the order of a preorder traversal.
IdxInPreorder(opt) == [i \in 1..Len(Preorder(opt)) |-> Preorder(opt)[i].idx]

\* The idx of the nodes of a subtree.
IdxOf(opt) == {nd.idx : nd \in Nodes(opt)}

\* What the claim says of the tree t numbered by _enumerate_nodes, which
\* returned total.
PreorderNumbered(t, total) ==
    /\ total >= 1
    /\ IdxInPreorder(t) = [i \in 1..total |-> i - 1]
    /\ \A nd \in Nodes(t) :
          /\ \A i \in IdxOf(nd.left) \cup IdxOf(nd.right) : nd.idx < i
          /\ \A i \in IdxOf(nd.left) : \A j \in IdxOf(nd.right) : i < j

\* What the claim says of the drawing of t up to max_step.
DrawnConnected(t, total, max_step) ==
    /\ draw_nodes_idx(t, max_step) = {i \in 0..(total - 1) : Within(i, max_step)}
    /\ \A e \in draw_edges(t, max_step) :
          /\ e[1] \in draw_nodes_idx(t, max_step)
          /\ e[2] \in draw_nodes_idx(t, max_step)
    /\ \A i \in draw_nodes_idx(t, max_step) :
          \/ i = t[1].idx
          \/ \E e \in draw_edges(t, max_step) : e[2] = i
    /\ draw_nodes_idx(t, max_step) # {} => t[1].idx \in draw_nodes_idx(t, max_step)

\* C26: _enumerate_nodes gives the nodes of the call tree the distinct
\* indices 0..N-1 in preorder (a parent before its children, the whole
\* left subtree before the right one) and returns N >= 1; so for every
\* step the nodes with idx <= step form a connected subtree containing the
\* root, and an edge is drawn only when both its end nodes are drawn.
C26_PreorderSteps ==
    Built =>
        /\ dfs(call.tree, 0).counter = enumerate_nodes(call.tree[1])
        /\ PreorderNumbered(dfs(call.tree, 0).tree, dfs(call.tree, 0).counter)
        /\ \A max_step \in {<< >>} \cup
                  {<<s>> : s \in (-1)..dfs(call.tree, 0).counter} :
              DrawnConnected(dfs(call.tree, 0).tree,
                             dfs(call.tree, 0).counter, max_step)

\* The tree of S(3, 2) has five nodes; its right child (2, 1) gets idx 2,
\* after the leaf (2, 2), and at step 2 two of the four arrows are drawn.
C26_Witness ==
    /\ Built /\ call.n = 3 /\ call.k = 2
    /\ dfs(call.tree, 0).counter = 5
    /\ dfs(call.tree, 0).tree[1].right[1].idx = 2
    /\ dfs(call.tree, 0).tree[1].right[1].k = 1
    /\ draw_nodes_idx(dfs(call.tree, 0).tree, <<2>>) = {0, 1, 2}
    /\ draw_edges(dfs(call.tree, 0).tree, <<2>>) = {<<0, 1>>, <<0, 2>>}
    /\ Cardinality(draw_edges(dfs(call.tree, 0).tree, << >>)) = 4

=============================================================================
